---- MODULE Spec2Model ----
(***************************************************************************)
(* Model of lemmy/pipe/component.py: the spaCy pipeline component that     *)
(* wraps a trained lemmatizer (LemmyPipelineComponent) and the module      *)
(* level load() function.                                                  *)
(*                                                                         *)
(* A document is a sequence of tokens [pos, text, lemma]; documents live   *)
(* in a heap indexed by document identity.  Every adapter (component       *)
(* instance) has its own program counter, loop cursor and local variables. *)
(* One Step is one iteration of the `for token in doc` loop.               *)
(***************************************************************************)
EXTENDS Integers, Sequences, FiniteSets, TLC

\* ---------------------------------------------------------------- bounds
MaxDoc == 2        \* longest document handed to __call__
MaxCands == 3      \* longest candidate list in the resource bundle
MaxRuns == 2       \* applications of __call__ to one document
MaxConcDoc == 2    \* longest document in the concurrent specification

\* ------------------------------------------------------------- alphabets
PRON_LEMMA == "-PRON-"

Adapters == {1, 2}
PosTags == {"PRON", "NOUN"}
Words == {"sheep", "geese"}
CandStrings == {"", "sheep", "goose"}
OldLemmas == {"", "old"}
Langs == {"da", "xx"}
Supported == {"da"}

Tokens == [pos : PosTags, text : Words, lemma : OldLemmas]
Docs == UNION {[1..k -> Tokens] : k \in 0..MaxDoc}

ConcTokens == [pos : PosTags, text : {"sheep"}, lemma : {"old"}]
ConcDocs == UNION {[1..k -> ConcTokens] : k \in 1..MaxConcDoc}

CandSeqs == UNION {[1..k -> CandStrings] : k \in 1..MaxCands}
Entries == [pos : PosTags, text : Words, lemmas : CandSeqs]
\* a resource bundle: an exception table with at most one entry
Bundles == {{}} \cup {{e} : e \in Entries}

VARIABLES
  bundle,       \* the bundled data of the supported language (read only)
  loaderCalls,  \* number of invocations of load_lang
  constructed,  \* number of LemmyPipelineComponent objects constructed
  lang,         \* per adapter: the language code load() was called with
  comp,         \* per adapter: the component (exists, _internal)
  pc,           \* per adapter: init, failed, ready, running, raised, returned
  err,          \* per adapter: the error that reached the caller
  heap,         \* document identity -> sequence of tokens
  doc,          \* per adapter: identity of the document passed to __call__
  ret,          \* per adapter: identity of the document returned
  idx,          \* per adapter: position of the loop over the document
  lemmas,       \* per adapter: local `lemmas` of the last _get_lemma call
  lemma,        \* per adapter: local `lemma` of __call__
  consulted,    \* per adapter: token positions for which lemmatize was called
  visited,      \* per adapter: token positions visited by the current call
  runs,         \* per adapter: completed applications of __call__
  before        \* per adapter: the document as it was when __call__ started

vars == <<bundle, loaderCalls, constructed, lang, comp, pc, err, heap, doc,
          ret, idx, lemmas, lemma, consulted, visited, runs, before>>

NoComponent == [exists |-> FALSE, internal |-> "none"]

\* ------------------------------------------------- wrapped lemmatizer
\* Lemmatizer.lemmatize: exception lookup, then identity fallback.
Lemmatize(b, pos, word) ==
  LET hits == {e \in b : e.pos = pos /\ e.text = word}
  IN IF hits = {} THEN <<word>> ELSE (CHOOSE e \in hits : TRUE).lemmas

\* lemmy.load: the lemmatizer of a language, or ResourceNotFoundError.
LoadLang(l) ==
  IF l \in Supported
    THEN [raised |-> FALSE, error |-> "none", lemmatizer |-> l]
    ELSE [raised |-> TRUE, error |-> "ResourceNotFoundError",
          lemmatizer |-> "none"]

\* --------------------------------------------------------- the component
\* LemmyPipelineComponent.__init__
Construct(lemmatizer_obj) == [exists |-> TRUE, internal |-> lemmatizer_obj]

\* the loop of _get_lemma: index of the first candidate, from k on, that
\* differs from the token's text; 0 when the loop runs off the end.
RECURSIVE FirstDiffering(_, _, _)
FirstDiffering(ls, orth, k) ==
  IF k > Len(ls) THEN 0
  ELSE IF orth = ls[k] THEN FirstDiffering(ls, orth, k + 1)
  ELSE k

\* mutants of _get_lemma
GetLemmaFirst(b, token) ==
  LET ls == Lemmatize(b, token.pos, token.text)
  IN [raised |-> FALSE, error |-> "none", value |-> ls[1], lemmas |-> ls]

GetLemmaNoFallthrough(b, token) ==
  LET ls == Lemmatize(b, token.pos, token.text)
      k == FirstDiffering(ls, token.text, 1)
  IN IF Len(ls) # 1 /\ k # 0
       THEN [raised |-> FALSE, error |-> "none", value |-> ls[k], lemmas |-> ls]
     ELSE IF Len(ls) = 1
       THEN [raised |-> FALSE, error |-> "none", value |-> ls[1], lemmas |-> ls]
     ELSE [raised |-> TRUE, error |-> "IndexError", value |-> "", lemmas |-> ls]

GetLemmaOrth(b, token) ==
  LET ls == Lemmatize(b, token.pos, token.text)
      k == IF Len(ls) # 1 THEN FirstDiffering(ls, token.text, 1) ELSE 0
  IN IF k # 0
       THEN [raised |-> FALSE, error |-> "none", value |-> ls[k], lemmas |-> ls]
     ELSE [raised |-> FALSE, error |-> "none", value |-> token.text, lemmas |-> ls]

GetLemmaIndexOne(b, token) ==
  LET ls == Lemmatize(b, token.pos, token.text)
      k == IF Len(ls) # 1 THEN FirstDiffering(ls, token.text, 1) ELSE 0
  IN IF k # 0
       THEN [raised |-> FALSE, error |-> "none", value |-> ls[k], lemmas |-> ls]
     ELSE IF Len(ls) < 2
       THEN [raised |-> TRUE, error |-> "IndexError", value |-> "", lemmas |-> ls]
     ELSE [raised |-> FALSE, error |-> "none", value |-> ls[2], lemmas |-> ls]

GetLemmaByLemmaField(b, token) ==
  LET ls == Lemmatize(b, token.pos, token.text)
      k == IF Len(ls) # 1 THEN FirstDiffering(ls, token.lemma, 1) ELSE 0
  IN IF k # 0
       THEN [raised |-> FALSE, error |-> "none", value |-> ls[k], lemmas |-> ls]
     ELSE [raised |-> FALSE, error |-> "none", value |-> ls[1], lemmas |-> ls]

\* LemmyPipelineComponent._get_lemma
GetLemma(b, token) ==
  LET ls == Lemmatize(b, token.pos, token.text)
      k == IF Len(ls) # 1 THEN FirstDiffering(ls, token.text, 1) ELSE 0
  IN IF k # 0
       THEN [raised |-> FALSE, error |-> "none", value |-> ls[k], lemmas |-> ls]
     ELSE IF Len(ls) = 0
       THEN [raised |-> TRUE, error |-> "IndexError", value |-> "", lemmas |-> ls]
     ELSE [raised |-> FALSE, error |-> "none", value |-> ls[1], lemmas |-> ls]

\* mutant of the pronoun test
IsPronounLower(token) == token.pos = "pron"

\* `token.pos_ == "PRON"`
IsPronoun(token) == token.pos = "PRON"

\* mutant of the falsy guard
FalsyNever(l) == FALSE

\* `not lemma`, for a string
Falsy(l) == l = ""

\* mutants of the assignment to the token
AssignLemmaAllDocs(h, d, i, l) ==
  [e \in DOMAIN h |->
     IF i \in DOMAIN h[e] THEN [h[e] EXCEPT ![i].lemma = l] ELSE h[e]]

AssignLemmaAndText(h, d, i, l) ==
  [h EXCEPT ![d][i].lemma = l, ![d][i].text = l]

\* `token.lemma_ = lemma`
AssignLemma(h, d, i, l) == [h EXCEPT ![d][i].lemma = l]

\* mutant of load: falls back to the default language when loading fails
LoadResultRetry(l) ==
  LET first == LoadLang(l)
      second == LoadLang("da")
  IN IF first.raised
       THEN [calls |-> 2, raised |-> second.raised, error |-> second.error,
             component |-> Construct(second.lemmatizer), built |-> 1]
       ELSE [calls |-> 1, raised |-> FALSE, error |-> "none",
             component |-> Construct(first.lemmatizer), built |-> 1]

\* load(lang): what one call does
LoadResult(l) ==
  LET r == LoadLang(l)
  IN IF r.raised
       THEN [calls |-> 1, raised |-> TRUE, error |-> r.error,
             component |-> NoComponent, built |-> 0]
       ELSE [calls |-> 1, raised |-> FALSE, error |-> "none",
             component |-> Construct(r.lemmatizer), built |-> 1]

\* ------------------------------------------------------------------ Init
InitLocals ==
  /\ heap = [a \in Adapters |-> <<>>]
  /\ doc = [a \in Adapters |-> 0]
  /\ ret = [a \in Adapters |-> 0]
  /\ idx = [a \in Adapters |-> 0]
  /\ lemmas = [a \in Adapters |-> <<>>]
  /\ lemma = [a \in Adapters |-> ""]
  /\ consulted = [a \in Adapters |-> <<>>]
  /\ visited = [a \in Adapters |-> <<>>]
  /\ runs = [a \in Adapters |-> 0]
  /\ before = [a \in Adapters |-> <<>>]
  /\ err = [a \in Adapters |-> "none"]

\* nothing loaded yet
Init ==
  /\ bundle \in Bundles
  /\ loaderCalls = 0
  /\ constructed = 0
  /\ lang = [a \in Adapters |-> "none"]
  /\ comp = [a \in Adapters |-> NoComponent]
  /\ pc = [a \in Adapters |-> "init"]
  /\ InitLocals

\* one lemmatizer loaded once, two components constructed around it
InitConc ==
  /\ bundle \in Bundles
  /\ loaderCalls = 1
  /\ constructed = 2
  /\ lang = [a \in Adapters |-> "da"]
  /\ comp = [a \in Adapters |-> Construct(LoadLang("da").lemmatizer)]
  /\ pc = [a \in Adapters |-> "ready"]
  /\ InitLocals

\* --------------------------------------------------------------- actions
Load(a, l) ==
  /\ pc[a] = "init"
  /\ LET r == LoadResult(l)
     IN /\ loaderCalls' = loaderCalls + r.calls
        /\ constructed' = constructed + r.built
        /\ lang' = [lang EXCEPT ![a] = l]
        /\ comp' = [comp EXCEPT ![a] = r.component]
        /\ err' = [err EXCEPT ![a] = r.error]
        /\ pc' = [pc EXCEPT ![a] = IF r.raised THEN "failed" ELSE "ready"]
  /\ UNCHANGED <<bundle, heap, doc, ret, idx, lemmas, lemma, consulted,
                 visited, runs, before>>

\* __call__(doc) entered with a document d
Call(a, d) ==
  /\ pc[a] = "ready"
  /\ heap' = [heap EXCEPT ![a] = d]
  /\ doc' = [doc EXCEPT ![a] = a]
  /\ before' = [before EXCEPT ![a] = d]
  /\ idx' = [idx EXCEPT ![a] = 1]
  /\ visited' = [visited EXCEPT ![a] = <<>>]
  /\ consulted' = [consulted EXCEPT ![a] = <<>>]
  /\ pc' = [pc EXCEPT ![a] = "running"]
  /\ UNCHANGED <<bundle, loaderCalls, constructed, lang, comp, err, ret,
                 lemmas, lemma, runs>>

\* __call__ entered again with the document the previous call returned
CallAgain(a) ==
  /\ pc[a] = "returned"
  /\ runs[a] < MaxRuns
  /\ doc' = [doc EXCEPT ![a] = ret[a]]
  /\ before' = [before EXCEPT ![a] = heap[ret[a]]]
  /\ idx' = [idx EXCEPT ![a] = 1]
  /\ visited' = [visited EXCEPT ![a] = <<>>]
  /\ consulted' = [consulted EXCEPT ![a] = <<>>]
  /\ pc' = [pc EXCEPT ![a] = "running"]
  /\ UNCHANGED <<bundle, loaderCalls, constructed, lang, comp, err, heap,
                 ret, lemmas, lemma, runs>>

\* one iteration of `for token in doc`
Step(a) ==
  /\ pc[a] = "running"
  /\ idx[a] <= Len(heap[doc[a]])
  /\ LET d == doc[a]
         i == idx[a]
         token == heap[d][i]
         pron == IsPronoun(token)
         r == GetLemma(bundle, token)
         l == IF pron THEN PRON_LEMMA ELSE r.value
     IN /\ visited' = [visited EXCEPT ![a] = Append(@, i)]
        /\ consulted' = [consulted EXCEPT
                           ![a] = IF pron THEN @ ELSE Append(@, i)]
        /\ lemmas' = [lemmas EXCEPT ![a] = IF pron THEN @ ELSE r.lemmas]
        /\ IF ~pron /\ r.raised
             THEN /\ pc' = [pc EXCEPT ![a] = "raised"]
                  /\ err' = [err EXCEPT ![a] = r.error]
                  /\ UNCHANGED <<lemma, heap, idx>>
             ELSE /\ lemma' = [lemma EXCEPT ![a] = l]
                  /\ heap' = IF Falsy(l) THEN heap ELSE AssignLemma(heap, d, i, l)
                  /\ idx' = [idx EXCEPT ![a] = i + 1]
                  /\ UNCHANGED <<pc, err>>
  /\ UNCHANGED <<bundle, loaderCalls, constructed, lang, comp, doc, ret,
                 runs, before>>

\* `return doc`
Return(a) ==
  /\ pc[a] = "running"
  /\ idx[a] > Len(heap[doc[a]])
  /\ ret' = [ret EXCEPT ![a] = doc[a]]
  /\ runs' = [runs EXCEPT ![a] = @ + 1]
  /\ pc' = [pc EXCEPT ![a] = "returned"]
  /\ UNCHANGED <<bundle, loaderCalls, constructed, lang, comp, err, heap,
                 doc, idx, lemmas, lemma, consulted, visited, before>>

\* -------------------------------------------------------- specifications
\* one component: load, then apply it to a document, possibly twice
Next ==
  \/ \E l \in Langs : Load(1, l)
  \/ \E d \in Docs : Call(1, d)
  \/ CallAgain(1)
  \/ Step(1)
  \/ Return(1)

Spec == Init /\ [][Next]_vars

\* two components sharing one lemmatizer, each applied to its own document
NextConc ==
  \/ \E a \in Adapters : \E d \in ConcDocs : Call(a, d)
  \/ \E a \in Adapters : Step(a)
  \/ \E a \in Adapters : Return(a)

SpecConc == InitConc /\ [][NextConc]_vars

\* ------------------------------------------------------ claim vocabulary
\* a per-token step of adapter a is being taken
StepTaken(a) == Len(visited'[a]) = Len(visited[a]) + 1

\* the token the next step of adapter a works on
Cur(a) == heap[doc[a]][idx[a]]

\* what lemmatize returns for that token
Cands(a) == Lemmatize(bundle, Cur(a).pos, Cur(a).text)

\* positions of the candidates that differ from the word form
DifferingAt(word, cands) == {k \in 1..Len(cands) : cands[k] # word}

\* the tie-break policy as the specification states it
Resolve(word, cands) ==
  IF Len(cands) >= 2 /\ DifferingAt(word, cands) # {}
    THEN cands[CHOOSE k \in DifferingAt(word, cands) :
                 \A j \in DifferingAt(word, cands) : k <= j]
    ELSE cands[1]

\* the token adapter a processed last, and whether the resolver saw it
Done(a) == idx[a] > 1 /\ pc[a] \in {"running", "returned"}
Last(a) == heap[doc[a]][idx[a] - 1]
LastBefore(a) == before[a][idx[a] - 1]

\* the document an adapter produces when it runs alone
AloneResult(b, d) ==
  [i \in 1..Len(d) |->
     LET l == IF d[i].pos = "PRON" THEN PRON_LEMMA
              ELSE Resolve(d[i].text, Lemmatize(b, d[i].pos, d[i].text))
     IN IF l = "" THEN d[i] ELSE [d[i] EXCEPT !.lemma = l]]

\* ---------------------------------------------------------------- claims
\* C1: with two or more candidates of which at least one differs from the
\* word form, _get_lemma returns the first candidate, in candidate order,
\* that differs from the word form.
C1_FirstDiffering ==
  [][\A a \in Adapters :
       (/\ StepTaken(a)
        /\ Cur(a).pos # "PRON"
        /\ Len(Cands(a)) >= 2
        /\ DifferingAt(Cur(a).text, Cands(a)) # {})
       => /\ pc'[a] # "raised"
          /\ \E k \in DifferingAt(Cur(a).text, Cands(a)) :
               /\ \A j \in 1..(k - 1) : Cands(a)[j] = Cur(a).text
               /\ lemma'[a] = Cands(a)[k]]_vars

\* three candidates, the first equal to the word form, the other two
\* different from it and from each other: the second one was returned
C1_Witness ==
  \E a \in Adapters :
    /\ Done(a)
    /\ Last(a).pos # "PRON"
    /\ Len(lemmas[a]) = 3
    /\ lemmas[a][1] = Last(a).text
    /\ lemmas[a][2] # Last(a).text
    /\ lemmas[a][3] # Last(a).text
    /\ lemmas[a][2] # lemmas[a][3]
    /\ lemma[a] = lemmas[a][2]

\* C2: with two or more candidates that all equal the word form,
\* _get_lemma returns the first candidate and does not fail.
C2_AllEqual ==
  [][\A a \in Adapters :
       (/\ StepTaken(a)
        /\ Cur(a).pos # "PRON"
        /\ Len(Cands(a)) >= 2
        /\ DifferingAt(Cur(a).text, Cands(a)) = {})
       => /\ pc'[a] # "raised"
          /\ err'[a] = "none"
          /\ lemma'[a] = Cands(a)[1]]_vars

C2_Witness ==
  \E a \in Adapters :
    /\ Done(a)
    /\ Last(a).pos # "PRON"
    /\ Len(lemmas[a]) >= 2
    /\ \A k \in 1..Len(lemmas[a]) : lemmas[a][k] = Last(a).text
    /\ lemma[a] = Last(a).text
    /\ Last(a).lemma = Last(a).text

\* C3: with exactly one candidate, _get_lemma returns that candidate,
\* whether or not it equals the word form.
C3_Single ==
  [][\A a \in Adapters :
       (/\ StepTaken(a)
        /\ Cur(a).pos # "PRON"
        /\ Len(Cands(a)) = 1)
       => /\ pc'[a] # "raised"
          /\ lemma'[a] = Cands(a)[1]]_vars

\* a single candidate that differs from the word form was returned
C3_Witness ==
  \E a \in Adapters :
    /\ Done(a)
    /\ Last(a).pos # "PRON"
    /\ Len(lemmas[a]) = 1
    /\ lemmas[a][1] # Last(a).text
    /\ lemmas[a][1] # ""
    /\ Last(a).lemma = lemmas[a][1]

\* C4: a token tagged PRON gets the pronoun sentinel as its lemma, and
\* lemmatize is not called for it.
C4_Pronoun ==
  [][\A a \in Adapters :
       (StepTaken(a) /\ Cur(a).pos = "PRON")
       => /\ pc'[a] # "raised"
          /\ heap'[doc[a]][idx[a]].lemma = PRON_LEMMA
          /\ consulted'[a] = consulted[a]]_vars

\* a pronoun for which the bundle holds an entry got the sentinel
C4_Witness ==
  \E a \in Adapters :
    /\ Done(a)
    /\ Last(a).pos = "PRON"
    /\ Last(a).lemma = PRON_LEMMA
    /\ LastBefore(a).lemma = "old"
    /\ Len(Lemmatize(bundle, "PRON", Last(a).text)) >= 2
    /\ consulted[a] = <<>>

\* C5: for a token that is not a pronoun, an empty resolved lemma leaves
\* the lemma field as it was and a non-empty one is written to it.
C5_FalsyGuard ==
  [][\A a \in Adapters :
       (StepTaken(a) /\ Cur(a).pos # "PRON")
       => LET r == Resolve(Cur(a).text, Cands(a))
          IN IF r = ""
               THEN heap'[doc[a]][idx[a]].lemma = Cur(a).lemma
               ELSE heap'[doc[a]][idx[a]].lemma = r]_vars

\* an empty resolved lemma left a set lemma field alone
C5_Witness ==
  \E a \in Adapters :
    /\ Done(a)
    /\ Last(a).pos # "PRON"
    /\ consulted[a] # <<>>
    /\ lemma[a] = ""
    /\ LastBefore(a).lemma = "old"
    /\ Last(a).lemma = "old"

\* C6: no per-token step raises, and a call that returned has visited
\* every token of the document.
C6_NoFailure ==
  \A a \in Adapters :
    /\ pc[a] # "raised"
    /\ err[a] # "IndexError"
    /\ pc[a] = "returned" => Len(visited[a]) = Len(heap[doc[a]])

C6_Witness ==
  \E a \in Adapters :
    /\ pc[a] = "returned"
    /\ Len(heap[doc[a]]) >= 2
    /\ Len(consulted[a]) >= 2
    /\ Len(Lemmatize(bundle, heap[doc[a]][1].pos, heap[doc[a]][1].text)) >= 2
    /\ Len(Lemmatize(bundle, heap[doc[a]][2].pos, heap[doc[a]][2].text)) = 1

\* C7: __call__ returns the document it was given; the tokens, their
\* text and part of speech, the wrapped lemmatizer and the bundle are
\* unchanged, and the tokens are visited once each in document order.
C7_Frame ==
  /\ [](\A a \in Adapters :
          /\ pc[a] \in {"running", "returned"} =>
               /\ Len(heap[doc[a]]) = Len(before[a])
               /\ \A i \in 1..Len(before[a]) :
                    /\ heap[doc[a]][i].text = before[a][i].text
                    /\ heap[doc[a]][i].pos = before[a][i].pos
               /\ visited[a] = [i \in 1..(idx[a] - 1) |-> i]
          /\ pc[a] = "returned" =>
               /\ ret[a] = doc[a]
               /\ visited[a] = [i \in 1..Len(before[a]) |-> i])
  /\ [][\A a \in Adapters :
          pc[a] = "running" => comp' = comp /\ bundle' = bundle]_vars

C7_Witness ==
  \E a \in Adapters :
    /\ pc[a] = "returned"
    /\ ret[a] = a
    /\ Len(heap[a]) >= 2
    /\ heap[a][1].lemma # before[a][1].lemma
    /\ heap[a][2].lemma # before[a][2].lemma

\* C8: load with an unsupported language code fails with the loader's
\* ResourceNotFoundError after one invocation of the loader and builds no
\* component; with a supported code it yields a component around the
\* loaded lemmatizer.
C8_Load ==
  \A a \in {1} :
    pc[a] # "init" =>
      /\ loaderCalls = 1
      /\ lang[a] \notin Supported =>
           /\ pc[a] = "failed"
           /\ err[a] = "ResourceNotFoundError"
           /\ comp[a] = NoComponent
           /\ constructed = 0
      /\ lang[a] \in Supported =>
           /\ pc[a] # "failed"
           /\ err[a] = "none"
           /\ comp[a] = [exists |-> TRUE, internal |-> lang[a]]
           /\ constructed = 1

C8_Witness ==
  /\ pc[1] = "failed"
  /\ lang[1] = "xx"
  /\ err[1] = "ResourceNotFoundError"

\* C9: adapters sharing one bundle and interleaving their per-token steps
\* on distinct documents leave the bundle unchanged and each document as
\* its adapter alone would have left it.
C9_Isolation ==
  /\ [](\A a \in Adapters :
          pc[a] = "returned" => heap[doc[a]] = AloneResult(bundle, before[a]))
  /\ [][bundle' = bundle]_vars

\* both adapters are in the middle of their documents
C9_Witness ==
  /\ \A a \in Adapters :
       /\ pc[a] = "running"
       /\ idx[a] = 2
       /\ Len(heap[a]) = 2
       /\ heap[a][1].lemma # before[a][1].lemma
  /\ heap[1] # heap[2]
  /\ before[1] # before[2]

\* C10: applying __call__ again to the document it returned changes no
\* lemma field.
C10_Idempotent ==
  \A a \in Adapters :
    (pc[a] = "returned" /\ runs[a] >= 2) => heap[doc[a]] = before[a]

C10_Witness ==
  \E a \in Adapters :
    /\ pc[a] = "returned"
    /\ runs[a] = 2
    /\ Len(heap[a]) >= 2
    /\ heap[a][1].lemma \notin OldLemmas
    /\ heap[a][2].lemma \in OldLemmas

====
